---------------------------- MODULE Spec2Model ----------------------------
(***************************************************************************)
(* Supermarket sales analysis: the command-line runner (run_analysis.py)   *)
(* and the analyzer (supermarket_analysis.py) as one state machine.        *)
(*                                                                         *)
(* Units.  Sales are amounts in mills (1/1000 of a currency unit), so that *)
(* the rounding to 2 decimals the code applies is visible; values shown    *)
(* after .round(2) are in hundredths.  Rating is in tenths.                *)
(***************************************************************************)
EXTENDS Integers, Sequences, FiniteSets, TLC

VARIABLES
    pc,          \* control point of the driver (CLI run or direct API use)
    driver,      \* "none", "cli" (run_analysis.main) or "api" (direct calls)
    missing,     \* check_dependencies: the packages found missing
    data_file,   \* os.path.exists(data_file): "unchecked", "found", "absent"
    csv,         \* the input file as read: [readable, has_date, rows]
    constructed, \* whether SupermarketAnalyzer(...) has been constructed
    load_failed, \* whether load_data caught an exception
    df,          \* self.df: None, or a column-indexed table
    started,     \* the pipeline steps started, in order
    last,        \* the last analyzer method called and how it ended
    out,         \* what the steps printed or plotted (latest of each)
    files,       \* the output files written in this run: name -> content
    exit_code,   \* -1 while running, else the process's exit code
    np_random,   \* state of numpy's global random generator
    calls,       \* number of analyzer methods called by the API driver
    seg_history  \* the label vectors fit_predict returned, in order

vars == << pc, driver, missing, data_file, csv, constructed, load_failed, df,
           started, last, out, files, exit_code, np_random, calls,
           seg_history >>

-----------------------------------------------------------------------------
(* Bounds of the model *)

MaxRows == 3
MaxCalls == 2

-----------------------------------------------------------------------------
(* Generic helpers *)

Max(a, b) == IF a >= b THEN a ELSE b

Abs(a) == IF a < 0 THEN -a ELSE a

RECURSIVE SeqSum(_)
SeqSum(s) == IF s = << >> THEN 0 ELSE Head(s) + SeqSum(Tail(s))

Min(a, b) == IF a <= b THEN a ELSE b

Range(s) == { s[i] : i \in DOMAIN s }

\* The sequence s with its elements computed (the same value).
Computed(s) == SubSeq(s, 1, Len(s))

None == [NoneType |-> TRUE]

-----------------------------------------------------------------------------
(* The input: rows of the CSV file *)

Row(date, branch, product, sales, quantity, rating) ==
    [Date |-> date, Branch |-> branch, Product_line |-> product,
     Sales |-> sales, Quantity |-> quantity, Rating |-> rating]

\* Dates are written month/day/year in the file, as in the data set.
ValidRows ==
    { Row(<<1, 5, 2019>>,  "A", "Health and beauty",      10000, 1, 40),
      Row(<<2, 10, 2019>>, "A", "Electronic accessories", 20000, 2, 90),
      Row(<<3, 3, 2019>>,  "B", "Health and beauty",      30000, 3, 70),
      Row(<<4, 1, 2019>>,  "B", "Electronic accessories", 10005, 1, 90) }

BadDateRows ==
    { Row(<<13, 45, 2019>>, "A", "Health and beauty", 20000, 2, 70) }

RowPool == ValidRows \cup BadDateRows

Tables == UNION { [1..n -> RowPool] : n \in 0..MaxRows }

Column(rows, c) == [i \in DOMAIN rows |-> rows[i][c]]

-----------------------------------------------------------------------------
(* pandas: dates *)

IsLeap(y) == (y % 4 = 0 /\ y % 100 # 0) \/ y % 400 = 0

DaysInMonth(y, m) ==
    IF m = 2 THEN (IF IsLeap(y) THEN 29 ELSE 28)
    ELSE IF m \in {4, 6, 9, 11} THEN 30 ELSE 31

\* pd.to_datetime on one month/day/year cell: whether it parses.
Parseable(raw) ==
    /\ raw[1] \in 1..12
    /\ raw[2] >= 1
    /\ raw[2] <= DaysInMonth(raw[3], raw[1])

\* The timestamp a parseable cell becomes.
to_datetime(raw) == [year |-> raw[3], month |-> raw[1], day |-> raw[2]]

MonthNames ==
    << "January", "February", "March", "April", "May", "June", "July",
       "August", "September", "October", "November", "December" >>

DayNames ==
    << "Sunday", "Monday", "Tuesday", "Wednesday", "Thursday", "Friday",
       "Saturday" >>

month_name(ts) == MonthNames[ts.month]

\* Day of the week of a Gregorian date, 0 = Sunday.
Weekday(ts) ==
    LET t == << 0, 3, 2, 5, 0, 3, 5, 1, 4, 6, 2, 4 >>
        y == IF ts.month < 3 THEN ts.year - 1 ELSE ts.year
    IN  (y + (y \div 4) - (y \div 100) + (y \div 400) + t[ts.month] + ts.day) % 7

day_name(ts) == DayNames[Weekday(ts) + 1]

\* Timestamps compare by calendar order.
Ordinal(ts) == ts.year * 10000 + ts.month * 100 + ts.day

\* strftime('%Y-%m-%d') and strftime('%B %Y'), as the fields they print.
strftime_ymd(ts) == << ts.year, ts.month, ts.day >>

strftime_BY(ts) == << month_name(ts), ts.year >>

-----------------------------------------------------------------------------
(* pandas: tables.  A table is [data: column name -> sequence of cells,     *)
(* dtypes: column name -> dtype]; all columns have the same length.         *)

RawColumns == { "Branch", "Product_line", "Sales", "Quantity", "Rating" }

read_csv(file) ==
    LET names == IF file.has_date THEN RawColumns \cup {"Date"} ELSE RawColumns
    IN  [data   |-> [c \in names |-> Column(file.rows, c)],
         dtypes |-> [c \in names |->
                        IF c \in {"Sales", "Quantity", "Rating"} THEN "number"
                        ELSE "object"]]

HasColumn(t, c) == t # None /\ c \in DOMAIN t.data

NRows(t) == Len(t.data["Sales"])

\* df[c] = values: the table with column c added or replaced.
SetColumn(t, c, values, dtype) ==
    [data   |-> [x \in DOMAIN t.data \cup {c} |->
                    IF x = c THEN values ELSE t.data[x]],
     dtypes |-> [x \in DOMAIN t.dtypes \cup {c} |->
                    IF x = c THEN dtype ELSE t.dtypes[x]]]

\* The keys groupby orders its groups by (sorted labels).
Alphabet ==
    << "A", "B", "April", "Electronic accessories", "February", "Friday",
       "Health and beauty", "January", "March", "Monday", "Saturday",
       "Sunday" >>

RECURSIVE SortedKeysFrom(_, _)
SortedKeysFrom(S, i) ==
    IF i > Len(Alphabet) THEN << >>
    ELSE IF Alphabet[i] \in S THEN << Alphabet[i] >> \o SortedKeysFrom(S, i + 1)
    ELSE SortedKeysFrom(S, i + 1)

SortedKeys(S) == SortedKeysFrom(S, 1)

GroupIndex(t, by, k) == { i \in 1..NRows(t) : t.data[by][i] = k }

RECURSIVE SumOver(_, _)
SumOver(col, I) ==
    IF I = {} THEN 0
    ELSE LET i == CHOOSE j \in I : TRUE IN col[i] + SumOver(col, I \ {i})

\* num/den rounded to the nearest integer, ties to the even one.
RoundDiv(num, den) ==
    LET q == num \div den
        r == num % den
    IN  IF 2 * r < den THEN q
        ELSE IF 2 * r > den THEN q + 1
        ELSE IF q % 2 = 0 THEN q ELSE q + 1

\* round(x, 2) and the format .2f for x = num/den mills: hundredths.
Round2(num, den) == RoundDiv(num, 10 * den)

\* df.groupby(by)[col].sum(): group key -> sum (mills), keys sorted.
groupby_sum(t, by, col) ==
    [k \in Range(t.data[by]) |-> SumOver(t.data[col], GroupIndex(t, by, k))]

\* A faulty aggregation: agg(['nunique', 'sum']) for agg(['count', 'sum']).
groupby_nunique_sum(t, by, col) ==
    [k \in Range(t.data[by]) |->
        [count |-> Cardinality({ t.data[col][i] : i \in GroupIndex(t, by, k) }),
         sum   |-> SumOver(t.data[col], GroupIndex(t, by, k))]]

\* df.groupby(by)[col].agg(['count', 'sum']): exact sums.
groupby_count_sum(t, by, col) ==
    [k \in Range(t.data[by]) |->
        [count |-> Cardinality(GroupIndex(t, by, k)),
         sum   |-> SumOver(t.data[col], GroupIndex(t, by, k))]]

\* A faulty aggregation: the mean taken over the whole table's row count.
groupby_agg_round2_table_mean(t, by, col) ==
    [k \in Range(t.data[by]) |->
        LET I == GroupIndex(t, by, k)
            s == SumOver(t.data[col], I)
        IN  [count |-> Cardinality(I),
             sum   |-> Round2(s, 1),
             mean  |-> Round2(s, NRows(t))]]

\* df.groupby(by)[col].agg(['count', 'sum', 'mean']).round(2): sum and mean
\* in hundredths after the rounding; count is an integer column.
groupby_agg_round2(t, by, col) ==
    [k \in Range(t.data[by]) |->
        LET I == GroupIndex(t, by, k)
            s == SumOver(t.data[col], I)
        IN  [count |-> Cardinality(I),
             sum   |-> Round2(s, 1),
             mean  |-> Round2(s, Cardinality(I))]]

\* series.idxmax(): the first key, in index order, holding the maximum.
idxmax(series) ==
    LET keys == SortedKeys(DOMAIN series)
        best == CHOOSE i \in DOMAIN keys :
                    /\ \A j \in DOMAIN keys : series[keys[j]] <= series[keys[i]]
                    /\ \A j \in 1..(i - 1) : series[keys[j]] < series[keys[i]]
    IN  keys[best]

\* series.sort_values(ascending=False), as the keys in their new order
\* (equal values keep their index order).
RECURSIVE SortDescFrom(_, _)
SortDescFrom(series, keys) ==
    IF keys = {} THEN << >>
    ELSE LET top == idxmax([k \in keys |-> series[k]])
         IN  << top >> \o SortDescFrom(series, keys \ {top})

sort_values_desc(series) == SortDescFrom(series, DOMAIN series)

-----------------------------------------------------------------------------
(* scikit-learn: StandardScaler and KMeans.  Floating-point values are      *)
(* fixed-point here: a standardized value is in hundredths of a standard    *)
(* deviation.                                                               *)

n_clusters == 3

random_state == 42

max_iter == 300

RECURSIVE IsqrtIn(_, _, _)
IsqrtIn(x, lo, hi) ==
    IF lo >= hi THEN lo
    ELSE LET mid == (lo + hi + 1) \div 2
         IN  IF mid * mid <= x THEN IsqrtIn(x, mid, hi)
             ELSE IsqrtIn(x, lo, mid - 1)

\* The integer square root, for 0 <= x < 2^30.
Isqrt(x) == IsqrtIn(x, 0, 32767)

RECURSIVE MaxAbs(_)
MaxAbs(s) == IF s = << >> THEN 0 ELSE Max(Abs(Head(s)), MaxAbs(Tail(s)))

\* StandardScaler on one column: (x - mean) / std with the population
\* standard deviation; a zero standard deviation is replaced by 1.
standardize(col) ==
    LET n   == Len(col)
        tot == SeqSum(col)
        a   == Computed([i \in 1..n |-> n * col[i] - tot])
        m   == MaxAbs(a)
    IN  IF m = 0 THEN [i \in 1..n |-> 0]
        ELSE LET b   == Computed([i \in 1..n |->
                            IF a[i] >= 0 THEN (a[i] * 1000) \div m
                            ELSE -((-a[i] * 1000) \div m)])
                 ssq == SeqSum([i \in 1..n |-> b[i] * b[i]])
                 rms == Isqrt((ssq * 100) \div n)
             IN  Computed([i \in 1..n |->
                    IF b[i] >= 0 THEN (b[i] * 1000) \div rms
                    ELSE -((-b[i] * 1000) \div rms)])

\* scaler.fit_transform(X): one point per row of the table.
fit_transform(t, features) ==
    LET z == Computed([f \in DOMAIN features |->
                          standardize(t.data[features[f]])])
    IN  Computed([i \in 1..NRows(t) |->
                     Computed([f \in DOMAIN features |-> z[f][i]])])

Dist2(p, q) == SeqSum([f \in DOMAIN p |-> (p[f] - q[f]) * (p[f] - q[f])])

\* The generator: a state, and whether it is numpy's global one.
NextRand(g) == (g * 5 + 3) % 16

\* A faulty constructor call: KMeans(n_clusters=3) without random_state.
KMeans_random_state_unset == << >>

\* The random_state argument of the KMeans constructor: << seed >>, or
\* << >> when the argument is left out.
KMeans_random_state == << random_state >>

\* check_random_state: an integer seeds a fresh generator, None is the
\* global generator.
check_random_state(seed, global) ==
    IF seed = << >> THEN [state |-> global, is_global |-> TRUE]
    ELSE [state |-> seed[1] % 16, is_global |-> FALSE]

RECURSIVE Advance(_, _)
Advance(g, k) == IF k = 0 THEN g ELSE Advance(NextRand(g), k - 1)

\* The k-th draw of a generator started in state g, a value in 0..15
\* standing for a uniform number in [0, 1).
Draw(g, k) == Advance(g, k)

\* Distance of every point to the nearest of the chosen centres.
Closest(X, chosen) ==
    Computed([i \in DOMAIN X |->
        LET d == { Dist2(X[i], X[chosen[c]]) : c \in DOMAIN chosen }
        IN  CHOOSE v \in d : \A w \in d : v <= w])

RECURSIVE CumSum(_, _)
CumSum(s, i) == IF i = 0 THEN 0 ELSE s[i] + CumSum(s, i - 1)

\* np.searchsorted(cumsum, r), clipped to the last index.
Candidate(closest, r) ==
    LET n    == Len(closest)
        hits == { j \in 1..n : CumSum(closest, j) >= r }
    IN  IF hits = {} THEN n ELSE CHOOSE j \in hits : \A h \in hits : j <= h

Potential(X, chosen) == SeqSum(Closest(X, chosen))

\* k-means++: the first centre uniformly, each further one the best of three
\* candidates drawn with probability proportional to the squared distance.
RECURSIVE KMeansPlusPlus(_, _, _, _)
KMeansPlusPlus(X, g, chosen, used) ==
    IF Len(chosen) = n_clusters THEN chosen
    ELSE IF chosen = << >>
         THEN KMeansPlusPlus(X, g, << (Draw(g, 1) * Len(X)) \div 16 + 1 >>, 1)
    ELSE LET closest == Closest(X, chosen)
             pot     == SeqSum(closest)
             cand    == Computed([t \in 1..3 |->
                            Candidate(closest, (Draw(g, used + t) * pot) \div 16)])
             newpot  == Computed([t \in 1..3 |->
                            Potential(X, Append(chosen, cand[t]))])
             best    == CHOOSE t \in 1..3 :
                            /\ \A u \in 1..3 : newpot[t] <= newpot[u]
                            /\ \A u \in 1..(t - 1) : newpot[u] > newpot[t]
         IN  KMeansPlusPlus(X, g, Append(chosen, cand[best]), used + 3)

\* The number of draws one initialisation takes.
DrawsPerFit == 1 + 3 * (n_clusters - 1)

\* E-step: every point gets the label of its nearest centre (the first of
\* equally near ones); labels are 0 .. n_clusters - 1.
assign_labels(X, centers) ==
    Computed([i \in DOMAIN X |->
        LET d == Computed([c \in DOMAIN centers |-> Dist2(X[i], centers[c])])
        IN  (CHOOSE c \in DOMAIN centers :
                /\ \A e \in DOMAIN centers : d[c] <= d[e]
                /\ \A e \in 1..(c - 1) : d[e] > d[c]) - 1])

Members(labels, c) == { i \in DOMAIN labels : labels[i] = c }

\* The points by decreasing distance to their own centre.
RECURSIVE Farthest(_, _, _, _)
Farthest(X, centers, labels, I) ==
    IF I = {} THEN << >>
    ELSE LET d    == Computed([i \in DOMAIN X |->
                                    Dist2(X[i], centers[labels[i] + 1])])
             far  == CHOOSE i \in I :
                        /\ \A j \in I : d[j] <= d[i]
                        /\ \A j \in I : j < i => d[j] < d[i]
         IN  << far >> \o Farthest(X, centers, labels, I \ {far})

\* M-step: every centre moves to the mean of its points; an empty cluster
\* is relocated to one of the points farthest from their centres.
update_centers(X, centers, labels) ==
    LET empty == { c \in 0..(n_clusters - 1) : Members(labels, c) = {} }
        far   == Farthest(X, centers, labels, DOMAIN X)
        rank(c) == Cardinality({ e \in empty : e <= c })
    IN  Computed([c \in DOMAIN centers |->
            LET I == Members(labels, c - 1)
            IN  IF I = {} THEN X[far[rank(c - 1)]]
                ELSE Computed([f \in DOMAIN centers[c] |->
                        SumOver([i \in DOMAIN X |-> X[i][f]], I)
                            \div Cardinality(I)])])

\* Lloyd's iterations until the labels stop changing or max_iter is spent.
RECURSIVE Lloyd(_, _, _, _)
Lloyd(X, centers, labels, iter) ==
    IF iter >= max_iter THEN labels
    ELSE LET moved == update_centers(X, centers, labels)
             again == assign_labels(X, moved)
         IN  IF again = labels THEN labels
             ELSE Lloyd(X, moved, again, iter + 1)

\* KMeans(n_clusters, random_state).fit_predict(X) with generator state g.
fit_predict(X, g) ==
    LET init    == KMeansPlusPlus(X, g, << >>, 0)
        centers == Computed([c \in 1..n_clusters |-> X[init[c]]])
    IN  Lloyd(X, centers, assign_labels(X, centers), 1)

-----------------------------------------------------------------------------
(* supermarket_analysis.py: what each method of SupermarketAnalyzer does    *)

Features == << "Sales", "Quantity", "Rating" >>

\* load_data: the table self.df is left with, and whether the except
\* clause ran.  read_csv raises on an unreadable file (self.df stays None);
\* df['Date'] raises when the column is absent and pd.to_datetime when a
\* cell does not parse (self.df stays as read).
load_data(file) ==
    IF ~file.readable THEN [df |-> None, failed |-> TRUE]
    ELSE LET t == read_csv(file)
         IN  IF "Date" \notin DOMAIN t.data THEN [df |-> t, failed |-> TRUE]
             ELSE IF \E i \in 1..NRows(t) : ~Parseable(t.data["Date"][i])
                  THEN [df |-> t, failed |-> TRUE]
             ELSE LET dates == [i \in 1..NRows(t) |-> to_datetime(t.data["Date"][i])]
                      t1 == SetColumn(t, "Date", dates, "datetime64")
                      t2 == SetColumn(t1, "Month",
                                [i \in 1..NRows(t) |-> month_name(dates[i])], "object")
                      t3 == SetColumn(t2, "Day",
                                [i \in 1..NRows(t) |-> day_name(dates[i])], "object")
                  IN  [df |-> t3, failed |-> FALSE]

\* df['Date'].min().strftime(...) raises unless the column holds timestamps
\* and the table has a row (NaT has no strftime).
DateRangeRaises(t) ==
    \/ ~HasColumn(t, "Date")
    \/ t.dtypes["Date"] # "datetime64"
    \/ NRows(t) = 0

DateMin(t) ==
    CHOOSE d \in Range(t.data["Date"]) :
        \A e \in Range(t.data["Date"]) : Ordinal(d) <= Ordinal(e)

DateMax(t) ==
    CHOOSE d \in Range(t.data["Date"]) :
        \A e \in Range(t.data["Date"]) : Ordinal(d) >= Ordinal(e)

\* basic_stats raises on df = None (line 49) or on the date range (line 52).
basic_stats_raises(t) == t = None \/ DateRangeRaises(t)

\* What basic_stats prints.
basic_stats_printed(t) ==
    LET product_stats == groupby_agg_round2(t, "Product_line", "Sales")
    IN  [total_sales   |-> Round2(SeqSum(t.data["Sales"]), 1),
         average_sale  |-> Round2(SeqSum(t.data["Sales"]), NRows(t)),
         transactions  |-> NRows(t),
         date_range    |-> << strftime_ymd(DateMin(t)), strftime_ymd(DateMax(t)) >>,
         branch_stats  |-> groupby_agg_round2(t, "Branch", "Sales"),
         product_stats |-> product_stats,
         product_order |-> sort_values_desc([k \in DOMAIN product_stats |->
                                                product_stats[k].sum])]

\* A faulty order: the months as the grouped index has them (alphabetical).
month_order_alphabetical == << "February", "January", "March" >>

month_order == << "January", "February", "March" >>

\* The monthly series plotted: reindex over the months of month_order that
\* are in the grouped index, as << month, sum >> points.
monthly_sales(t) ==
    LET grouped == groupby_sum(t, "Month", "Sales")
        kept    == SelectSeq(month_order, LAMBDA m : m \in DOMAIN grouped)
    IN  [i \in DOMAIN kept |-> << kept[i], grouped[kept[i]] >>]

\* create_visualizations raises before savefig on df = None (line 73) or a
\* missing Month column (line 122).
create_visualizations_raises(t) == t = None \/ ~HasColumn(t, "Month")

\* advanced_analysis raises before the labels are assigned on df = None,
\* on an empty table (StandardScaler) and on fewer rows than clusters
\* (KMeans).
fit_raises(t) == t = None \/ NRows(t) = 0 \/ NRows(t) < n_clusters

\* A faulty assignment: the standardized Sales written back into the table.
with_segments_scaled_in_place(t, X_scaled, labels) ==
    SetColumn(SetColumn(t, "Sales",
                        [i \in DOMAIN X_scaled |-> X_scaled[i][1]], "number"),
              "Customer_Segment", labels, "number")

\* A faulty assignment: the segments stored numbered from 1.
with_segments_from_one(t, X_scaled, labels) ==
    SetColumn(t, "Customer_Segment",
              [i \in DOMAIN labels |-> labels[i] + 1], "number")

\* self.df['Customer_Segment'] = kmeans.fit_predict(X_scaled)
with_segments(t, X_scaled, labels) ==
    SetColumn(t, "Customer_Segment", labels, "number")

\* The grouped means and counts advanced_analysis prints, after .round(2).
segment_analysis(t) ==
    [c \in Range(t.data["Customer_Segment"]) |->
        LET I == GroupIndex(t, "Customer_Segment", c)
            m == Cardinality(I)
        IN  [Sales_mean    |-> Round2(SumOver(t.data["Sales"], I), m),
             Sales_count   |-> m,
             Quantity_mean |-> RoundDiv(100 * SumOver(t.data["Quantity"], I), m),
             Rating_mean   |-> RoundDiv(10 * SumOver(t.data["Rating"], I), m)]]

\* The business insights advanced_analysis prints (lines 170-191).
insights(t) ==
    [top_branch  |-> idxmax(groupby_sum(t, "Branch", "Sales")),
     top_product |-> idxmax(groupby_sum(t, "Product_line", "Sales")),
     peak_day    |-> idxmax(groupby_sum(t, "Day", "Sales")),
     avg_basket  |-> Round2(SeqSum(t.data["Sales"]), NRows(t)),
     avg_rating  |-> RoundDiv(SeqSum(t.data["Rating"]), NRows(t))]

\* generate_report raises while formatting on df = None (line 229) or on
\* the analysis period (line 232).
generate_report_raises(t) == t = None \/ DateRangeRaises(t)

Recommendations ==
    << "Focus marketing efforts on the top-performing product lines",
       "Implement loyalty programs to convert normal customers to members",
       "Optimize inventory based on branch-specific performance",
       "Leverage peak sales days for promotional activities" >>

\* The text of the report, as its labelled parts in the order written.
report_text(t) ==
    LET product_sales == groupby_sum(t, "Product_line", "Sales")
        order == sort_values_desc(product_sales)
    IN  << [label |-> "Total Revenue",
            value |-> Round2(SeqSum(t.data["Sales"]), 1)],
           [label |-> "Total Transactions", value |-> NRows(t)],
           [label |-> "Average Transaction",
            value |-> Round2(SeqSum(t.data["Sales"]), NRows(t))],
           [label |-> "Analysis Period",
            value |-> << strftime_BY(DateMin(t)), strftime_BY(DateMax(t)) >>],
           [label |-> "BRANCH PERFORMANCE",
            value |-> groupby_count_sum(t, "Branch", "Sales")],
           [label |-> "PRODUCT LINE ANALYSIS",
            value |-> [i \in DOMAIN order |->
                          << order[i], product_sales[order[i]] >>]],
           [label |-> "Average Rating",
            value |-> RoundDiv(SeqSum(t.data["Rating"]), NRows(t))],
           [label |-> "RECOMMENDATIONS", value |-> Recommendations] >>

-----------------------------------------------------------------------------
(* The state machine *)

RequiredPackages ==
    { "pandas", "numpy", "matplotlib", "seaborn", "plotly", "scikit-learn" }

\* The sets of missing packages the model tries.
MissingChoices == { {}, {"scikit-learn"}, {"pandas", "plotly"} }

\* The input files the model tries: an unreadable one, and every table with
\* and without its Date column.
CsvFiles ==
    { [readable |-> FALSE, has_date |-> TRUE, rows |-> << >>] }
    \cup { [readable |-> TRUE, has_date |-> h, rows |-> t] :
              h \in BOOLEAN, t \in Tables }

\* The input files the API caller is tried on: those that load.
ApiFiles ==
    { [readable |-> TRUE, has_date |-> TRUE, rows |-> t] :
         t \in UNION { [1..n -> ValidRows] : n \in 0..MaxRows } }

\* The states numpy's global generator may start in.
GlobalStates == { 3 }

Dashboard == "supermarket_analysis_dashboard.png"

Sunburst == "sales_sunburst.html"

Scatter == "sales_scatter.html"

Report == "analysis_report.txt"

OutputFiles == { Dashboard, Sunburst, Scatter, Report }

\* run_complete_analysis: the steps in the order called.
Pipeline ==
    << "basic_stats", "create_visualizations", "advanced_analysis",
       "create_interactive_plots", "generate_report" >>

AfterStep(m) ==
    IF m = "generate_report" THEN "returned"
    ELSE Pipeline[(CHOOSE i \in DOMAIN Pipeline : Pipeline[i] = m) + 1]

\* out maps the name of each output produced so far to its latest value.
NoOutput == << >>

Put(o, name, value) == (name :> value) @@ o

Init ==
    /\ pc = "start"
    /\ driver = "none"
    /\ missing = {}
    /\ data_file = "unchecked"
    /\ csv = None
    /\ constructed = FALSE
    /\ load_failed = FALSE
    /\ df = None
    /\ started = << >>
    /\ last = [method |-> "none", raised |-> FALSE]
    /\ out = NoOutput
    /\ files = {}
    /\ exit_code = -1
    /\ np_random \in GlobalStates
    /\ calls = 0
    /\ seg_history = << >>

\* main, lines 69-71: check_dependencies(); a missing package ends the
\* process with sys.exit(1).
check_dependencies ==
    /\ pc = "start"
    /\ driver' = "cli"
    /\ \E m \in MissingChoices :
          /\ missing' = m
          /\ IF m # {}
             THEN pc' = "exited" /\ exit_code' = 1
             ELSE pc' = "run_analysis" /\ exit_code' = exit_code
    /\ UNCHANGED << data_file, csv, constructed, load_failed, df, started,
                    last, out, files, np_random, calls, seg_history >>

\* A faulty result: the except clause returning True.
run_analysis_result_except_true(at) == at \in { "returned", "caught" }

\* What run_analysis returns, by the place it returns at: True on line 58
\* after run_complete_analysis returned, False on line 50 (no data file)
\* and from the except clause on line 62.
run_analysis_result(at) == at = "returned"

\* A faulty exit: the else branch of main without sys.exit(1).
main_exit_code_no_exit(ok) == 0

\* main: the exit code after run_analysis() returned ok (lines 74-83).
main_exit_code(ok) == IF ok THEN 0 ELSE 1

\* run_analysis, lines 44-52: the file check; an absent file returns False.
check_data_file ==
    /\ pc = "run_analysis"
    /\ \E exists \in BOOLEAN :
          IF exists
          THEN data_file' = "found" /\ pc' = "construct"
          ELSE data_file' = "absent" /\ pc' = "absent"
    /\ UNCHANGED << driver, missing, csv, constructed, load_failed, df,
                    started, last, out, files, exit_code, np_random, calls,
                    seg_history >>

\* SupermarketAnalyzer(data_path): __init__ calls load_data, which never
\* raises.
Construct(file) ==
    /\ csv' = file
    /\ constructed' = TRUE
    /\ \E loaded \in { load_data(file) } :
          /\ df' = loaded.df
          /\ load_failed' = loaded.failed

\* run_analysis, line 55.
construct_analyzer ==
    /\ pc = "construct"
    /\ \E file \in CsvFiles : Construct(file)
    /\ pc' = "basic_stats"
    /\ UNCHANGED << driver, missing, data_file, started, last, out, files,
                    exit_code, np_random, calls, seg_history >>

\* A caller other than run_analysis constructs the analyzer and calls its
\* methods itself (as supermarket_analysis.main does).
api_construct ==
    /\ pc = "start"
    /\ driver' = "api"
    /\ \E file \in ApiFiles : Construct(file)
    /\ pc' = "api"
    /\ UNCHANGED << missing, data_file, started, last, out, files, exit_code,
                    np_random, calls, seg_history >>

\* Method m may be called now: by run_complete_analysis at its turn, or by
\* the API caller at any time.
Callable(m) ==
    IF driver = "cli" THEN pc = m
    ELSE driver = "api" /\ pc = "api" /\ calls < MaxCalls

\* Method m ends: by returning, or with an exception that leaves
\* run_complete_analysis and is caught by run_analysis (lines 60-62).
Ends(m, raised) ==
    /\ last' = [method |-> m, raised |-> raised]
    /\ IF driver = "cli"
       THEN /\ started' = Append(started, m)
            /\ calls' = calls
            /\ pc' = IF raised THEN "caught" ELSE AfterStep(m)
       ELSE /\ started' = started
            /\ calls' = calls + 1
            /\ pc' = pc

basic_stats ==
    /\ Callable("basic_stats")
    /\ IF basic_stats_raises(df)
       THEN out' = out /\ Ends("basic_stats", TRUE)
       ELSE /\ out' = Put(out, "basic", basic_stats_printed(df))
            /\ Ends("basic_stats", FALSE)
    /\ UNCHANGED << driver, missing, data_file, csv, constructed, load_failed,
                    df, files, exit_code, np_random, seg_history >>

\* savefig may fail (the environment decides); nothing is written then.
create_visualizations ==
    /\ Callable("create_visualizations")
    /\ IF create_visualizations_raises(df)
       THEN /\ out' = out /\ files' = files
            /\ Ends("create_visualizations", TRUE)
       ELSE /\ out' = Put(out, "monthly", monthly_sales(df))
            /\ \E saved \in BOOLEAN :
                  /\ files' = IF saved THEN files \cup {Dashboard} ELSE files
                  /\ Ends("create_visualizations", ~saved)
    /\ UNCHANGED << driver, missing, data_file, csv, constructed, load_failed,
                    df, exit_code, np_random, seg_history >>

advanced_analysis ==
    /\ Callable("advanced_analysis")
    /\ IF fit_raises(df)
       THEN /\ df' = df /\ out' = out /\ np_random' = np_random
            /\ seg_history' = seg_history
            /\ Ends("advanced_analysis", TRUE)
       ELSE LET rng == check_random_state(KMeans_random_state, np_random)
            IN  \E X_scaled \in { fit_transform(df, Features) } :
                \E labels \in { fit_predict(X_scaled, rng.state) } :
                \E table \in { with_segments(df, X_scaled, labels) } :
                   /\ df' = table
                   /\ np_random' = IF rng.is_global
                                   THEN Advance(rng.state, DrawsPerFit)
                                   ELSE np_random
                   /\ seg_history' = Append(seg_history, labels)
                   /\ IF HasColumn(table, "Day")
                      THEN /\ out' = Put(Put(out, "segments",
                                                segment_analysis(table)),
                                            "insights", insights(table))
                           /\ Ends("advanced_analysis", FALSE)
                      ELSE /\ out' = Put(out, "segments",
                                            segment_analysis(table))
                           /\ Ends("advanced_analysis", TRUE)
    /\ UNCHANGED << driver, missing, data_file, csv, constructed, load_failed,
                    files, exit_code >>

\* Each write_html may fail (the environment decides): written is the
\* number of files written before the method ended.
create_interactive_plots ==
    /\ Callable("create_interactive_plots")
    /\ IF df = None
       THEN files' = files /\ Ends("create_interactive_plots", TRUE)
       ELSE \E written \in 0..2 :
               /\ files' = files \cup (IF written >= 1 THEN {Sunburst} ELSE {})
                                 \cup (IF written >= 2 THEN {Scatter} ELSE {})
               /\ Ends("create_interactive_plots", written < 2)
    /\ UNCHANGED << driver, missing, data_file, csv, constructed, load_failed,
                    df, out, exit_code, np_random, seg_history >>

\* open(..., 'w') or f.write may fail (the environment decides).
generate_report ==
    /\ Callable("generate_report")
    /\ IF generate_report_raises(df)
       THEN /\ out' = out /\ files' = files
            /\ Ends("generate_report", TRUE)
       ELSE \E saved \in BOOLEAN :
               /\ files' = IF saved THEN files \cup {Report} ELSE files
               /\ out' = IF saved THEN Put(out, "report", report_text(df))
                         ELSE out
               /\ Ends("generate_report", ~saved)
    /\ UNCHANGED << driver, missing, data_file, csv, constructed, load_failed,
                    df, exit_code, np_random, seg_history >>

\* main, lines 74-83: run_analysis() has returned; main returns (exit code
\* 0) on True and calls sys.exit(1) on False.
main_exit ==
    /\ pc \in { "returned", "caught", "absent" }
    /\ pc' = "exited"
    /\ exit_code' = main_exit_code(run_analysis_result(pc))
    /\ UNCHANGED << driver, missing, data_file, csv, constructed, load_failed,
                    df, started, last, out, files, np_random, calls,
                    seg_history >>

Next ==
    \/ check_dependencies
    \/ check_data_file
    \/ construct_analyzer
    \/ api_construct
    \/ basic_stats
    \/ create_visualizations
    \/ advanced_analysis
    \/ create_interactive_plots
    \/ generate_report
    \/ main_exit

Spec == Init /\ [][Next]_vars

-----------------------------------------------------------------------------
(* Properties *)

TableLoaded == constructed /\ ~load_failed

TotalSales(t) == SeqSum(t.data["Sales"])

FnSum(f) == SumOver(f, DOMAIN f)

Labels(text) == { text[i].label : i \in DOMAIN text }

Part(text, label) ==
    text[CHOOSE i \in DOMAIN text : text[i].label = label].value

Returned(m) == last = [method |-> m, raised |-> FALSE]

\* C1: the runner exits with code 1 whenever a package is missing or the
\* data file is absent, and the analyzer is never constructed then; it exits
\* with code 0 only after run_complete_analysis returned, with the four
\* output files written in this run.
C1_ExitCodes ==
    /\ (missing # {} \/ data_file = "absent") =>
          /\ ~constructed
          /\ pc \in { "absent", "exited" }
          /\ exit_code # 0
          /\ pc = "exited" => exit_code = 1
    /\ exit_code = 0 =>
          /\ missing = {} /\ data_file = "found" /\ constructed
          /\ started = Pipeline
          /\ Returned("generate_report")
          /\ files = OutputFiles

C1_Witness ==
    /\ pc = "exited"
    /\ exit_code = 0
    /\ files = OutputFiles

\* C2 as claimed: once load_data has failed, no later pipeline step is
\* started.
C2_NoStepAfterFailedLoad == load_failed => started = << >>

\* C3: after advanced_analysis has completed, every record carries one
\* cluster label, the label is in {0, 1, 2}, and the per-cluster counts
\* printed sum to the number of records.
C3_LabelsInRange ==
    Returned("advanced_analysis") =>
        /\ HasColumn(df, "Customer_Segment")
        /\ NRows(df) >= 1
        /\ DOMAIN df.data["Customer_Segment"] = 1..NRows(df)
        /\ \A i \in 1..NRows(df) :
              df.data["Customer_Segment"][i] \in 0..(n_clusters - 1)
        /\ "segments" \in DOMAIN out
        /\ DOMAIN out["segments"] \subseteq 0..(n_clusters - 1)
        /\ FnSum([c \in DOMAIN out["segments"] |->
                     out["segments"][c].Sales_count]) = NRows(df)

C3_Witness ==
    /\ Returned("advanced_analysis")
    /\ NRows(df) = 3
    /\ Cardinality(Range(df.data["Customer_Segment"])) >= 2

\* C4: segmentation is deterministic: every run of the segmentation step on
\* the same table returns the same label vector, whatever ran before it.
C4_Deterministic ==
    /\ \A i, j \in DOMAIN seg_history : seg_history[i] = seg_history[j]
    /\ (HasColumn(df, "Customer_Segment") /\ seg_history # << >>) =>
          df.data["Customer_Segment"] = seg_history[1]

C4_Witness ==
    /\ Len(seg_history) >= 2
    /\ Cardinality(Range(seg_history[1])) >= 2

RowsWhere(t, by, k) == { i \in 1..NRows(t) : t.data[by][i] = k }

ExactSum(t, by, k) == SumOver(t.data["Sales"], RowsWhere(t, by, k))

\* C6 as claimed: in the aggregates basic_stats prints, the count is the
\* number of records of the group, the sum is the sum of their Sales, and
\* the mean is sum/count rounded to 2 decimals.
C6_SumIsExact ==
    "basic" \in DOMAIN out =>
        \A by \in { "Branch", "Product_line" } :
            LET stats == IF by = "Branch" THEN out["basic"].branch_stats
                         ELSE out["basic"].product_stats
            IN  \A k \in DOMAIN stats :
                    /\ stats[k].count = Cardinality(RowsWhere(df, by, k))
                    /\ 10 * stats[k].sum = ExactSum(df, by, k)
                    /\ Abs(10 * stats[k].count * stats[k].mean
                            - ExactSum(df, by, k)) <= 5 * stats[k].count

\* C6, amended: the count is the number of records of the group, the sum
\* printed is the sum of their Sales rounded to 2 decimals, and the mean
\* printed is sum/count rounded to 2 decimals; for sales [10, 20, 30] with
\* branches [A, A, B] the result is A: 2, 30, 15 and B: 1, 30, 30.
C6_RoundedAggregates ==
    "basic" \in DOMAIN out =>
        /\ \A by \in { "Branch", "Product_line" } :
              LET stats == IF by = "Branch" THEN out["basic"].branch_stats
                           ELSE out["basic"].product_stats
              IN  /\ DOMAIN stats = Range(df.data[by])
                  /\ \A k \in DOMAIN stats :
                        /\ stats[k].count = Cardinality(RowsWhere(df, by, k))
                        /\ Abs(10 * stats[k].sum - ExactSum(df, by, k)) <= 5
                        /\ Abs(10 * stats[k].count * stats[k].mean
                                - ExactSum(df, by, k)) <= 5 * stats[k].count
        /\ (/\ df.data["Sales"] = << 10000, 20000, 30000 >>
            /\ df.data["Branch"] = << "A", "A", "B" >>) =>
              /\ DOMAIN out["basic"].branch_stats = { "A", "B" }
              /\ out["basic"].branch_stats["A"]
                    = [count |-> 2, sum |-> 3000, mean |-> 1500]
              /\ out["basic"].branch_stats["B"]
                    = [count |-> 1, sum |-> 3000, mean |-> 3000]

C6_Witness ==
    /\ "basic" \in DOMAIN out
    /\ df.data["Sales"] = << 10000, 20000, 30000 >>
    /\ df.data["Branch"] = << "A", "A", "B" >>

DropColumn(t, c) ==
    [data   |-> [x \in DOMAIN t.data \ {c} |-> t.data[x]],
     dtypes |-> [x \in DOMAIN t.dtypes \ {c} |-> t.dtypes[x]]]

\* C7: after a successful load no step changes the table, except that
\* advanced_analysis sets the Customer_Segment column and nothing else.
C7_TableFrame ==
    [][ TableLoaded =>
          /\ DropColumn(df', "Customer_Segment")
                = DropColumn(df, "Customer_Segment")
          /\ df' # df => last'.method = "advanced_analysis" ]_vars

C7_Witness ==
    /\ driver = "api"
    /\ TableLoaded
    /\ HasColumn(df, "Customer_Segment")
    /\ last.method \in { "basic_stats", "create_visualizations",
                         "create_interactive_plots", "generate_report" }
    /\ ~last.raised

\* The part of the report that would carry each item the report is said to
\* include; "Peak sales day" is the label advanced_analysis prints it under.
ReportItems ==
    { "BRANCH PERFORMANCE", "PRODUCT LINE ANALYSIS", "Peak sales day",
      "Average Transaction", "Average Rating", "RECOMMENDATIONS" }

\* C8 as claimed: whenever analysis_report.txt is written, it includes the
\* top branch, the top product line, the peak sales weekday, the average
\* transaction value, the average rating and the recommendations.
C8_ReportIncludesAll ==
    Report \in files =>
        /\ "report" \in DOMAIN out
        /\ ReportItems \subseteq Labels(out["report"])

\* C9: in a run of the command-line runner in which load_data failed, no
\* output file is ever written and the exit code is 1; the pipeline starts
\* and basic_stats raises.
C9_FailedLoadRun ==
    (driver = "cli" /\ load_failed) =>
        /\ files = {}
        /\ exit_code # 0
        /\ pc = "exited" => exit_code = 1
        /\ pc \in { "basic_stats", "caught", "exited" }
        /\ pc = "basic_stats" => started = << >>
        /\ pc # "basic_stats" =>
              /\ started = << "basic_stats" >>
              /\ last = [method |-> "basic_stats", raised |-> TRUE]

C9_Witness ==
    /\ driver = "cli"
    /\ load_failed
    /\ df # None
    /\ pc = "exited"

MonthNumber(name) == CHOOSE k \in DOMAIN MonthNames : MonthNames[k] = name

RowsOfMonth(t, k) == { i \in 1..NRows(t) : t.data["Date"][i].month = k }

=============================================================================
